---- MODULE Spec2Model ----
(***************************************************************************)
(* PulseWatch: the monitor worker (services/monitor/worker.py) and the     *)
(* store API it talks to (services/api/main.py).                           *)
(*                                                                         *)
(* Python strings are sequences of characters; a character is a one-       *)
(* element TLA+ string, except "sup2", which stands for U+00B2             *)
(* (SUPERSCRIPT TWO): str.isdigit() accepts it, int() rejects it.          *)
(* A JSON object is a record; a key the object lacks is outside DOMAIN.    *)
(***************************************************************************)
EXTENDS Integers, Sequences, FiniteSets, TLC

(***************************************************************************)
(* Bounds of the model.                                                    *)
(***************************************************************************)
MaxMonitors == 2      \* most check_once tasks alive at one time
MaxCycles == 2        \* cycles of the runner loop that are explored
MaxDescOver == 1      \* how far a failure description exceeds the 300 limit
MaxRows == 2          \* rows of each table of the store
MaxSpecLen == 4       \* longest specification string given to in_expected
MaxBaseLen == 3       \* longest specification a malformed token is put into

(***************************************************************************)
(* Python str helpers used by in_expected.                                 *)
(***************************************************************************)
AsciiDigits == <<"0", "1", "2", "3", "4", "5", "6", "7", "8", "9">>

IsAsciiDigit(c) == \E i \in 1..Len(AsciiDigits) : AsciiDigits[i] = c

DigitVal(c) == (CHOOSE i \in 1..Len(AsciiDigits) : AsciiDigits[i] = c) - 1

\* characters for which str.isdigit() is true
IsDigitChar(c) == IsAsciiDigit(c) \/ c = "sup2"

IsSpaceChar(c) == c \in {" ", "\t"}

\* str.isdigit(): non-empty and every character is a digit character
isdigit(s) == Len(s) > 0 /\ \A i \in 1..Len(s) : IsDigitChar(s[i])

\* int(s) raises ValueError; only asked of strings for which isdigit(s)
IntRaises(s) == \E i \in 1..Len(s) : ~IsAsciiDigit(s[i])

RECURSIVE ToInt(_)
\* int(s) for a string of ASCII decimal digits
ToInt(s) ==
    IF Len(s) = 0 THEN 0
    ELSE 10 * ToInt(SubSeq(s, 1, Len(s) - 1)) + DigitVal(s[Len(s)])

\* s.find(c) + 1: position of the first c in s, 0 when there is none
IndexOf(s, c) ==
    IF \E i \in 1..Len(s) : s[i] = c
    THEN CHOOSE i \in 1..Len(s) : s[i] = c /\ \A j \in 1..(i - 1) : s[j] # c
    ELSE 0

Contains(s, c) == IndexOf(s, c) # 0

RECURSIVE Split(_, _)
\* s.split(c): always at least one part
Split(s, c) ==
    LET i == IndexOf(s, c)
    IN  IF i = 0 THEN <<s>>
        ELSE <<SubSeq(s, 1, i - 1)>> \o Split(SubSeq(s, i + 1, Len(s)), c)

\* s.split(c, 1): at most one split, at the first c
Split1(s, c) ==
    LET i == IndexOf(s, c)
    IN  IF i = 0 THEN <<s>>
        ELSE <<SubSeq(s, 1, i - 1), SubSeq(s, i + 1, Len(s))>>

RECURSIVE StripLeft(_)
\* s.lstrip(): whitespace removed at the front only
StripLeft(s) ==
    IF Len(s) = 0 THEN s
    ELSE IF IsSpaceChar(s[1]) THEN StripLeft(Tail(s))
    ELSE s

RECURSIVE Strip(_)
\* s.strip(): whitespace removed at both ends
Strip(s) ==
    IF Len(s) = 0 THEN s
    ELSE IF IsSpaceChar(s[1]) THEN Strip(Tail(s))
    ELSE IF IsSpaceChar(s[Len(s)]) THEN Strip(SubSeq(s, 1, Len(s) - 1))
    ELSE s

(***************************************************************************)
(* in_expected (worker.py 7-19).  The outcome is a record: r is "True",    *)
(* "False" or "ValueError" (int() raised on a string that passed           *)
(* isdigit()), and arg is the string int() was given when it raised.       *)
(***************************************************************************)
Outcome(r) == [r |-> r, arg |-> <<>>]

Raised(s) == [r |-> "ValueError", arg |-> s]

\* one iteration of the for loop on the stripped token p; r is "True"
\* (return True), "Next" (next token) or "ValueError"
TokenOutcome(status, p) ==
    IF Contains(p, "-")
    THEN LET ab == Split1(p, "-")
             a == ab[1]
             b == ab[2]
         IN  IF ~(isdigit(a) /\ isdigit(b)) THEN Outcome("Next")
             ELSE IF IntRaises(a) THEN Raised(a)
             ELSE IF ~(ToInt(a) <= status) THEN Outcome("Next")
             ELSE IF IntRaises(b) THEN Raised(b)
             ELSE IF status <= ToInt(b) THEN Outcome("True")
             ELSE Outcome("Next")
    ELSE IF ~isdigit(p) THEN Outcome("Next")
         ELSE IF IntRaises(p) THEN Raised(p)
         ELSE IF ToInt(p) = status THEN Outcome("True")
         ELSE Outcome("Next")

RECURSIVE ForParts(_, _)
\* the for loop over parts, and the return False after it
ForParts(status, parts) ==
    IF Len(parts) = 0 THEN Outcome("False")
    ELSE LET o == TokenOutcome(status, Strip(Head(parts)))
         IN  IF o.r = "Next" THEN ForParts(status, Tail(parts)) ELSE o

in_expected(status, spec) == ForParts(status, Split(spec, ","))

(***************************************************************************)
(* Values of the worker.                                                   *)
(***************************************************************************)
\* Optional values: None, or Some(v)
None == <<>>

Some(v) == <<v>>

\* dict.get(k, d)
Get(m, k, d) == IF k \in DOMAIN m THEN m[k] ELSE d

\* s[:n]
Take(s, n) == SubSeq(s, 1, IF Len(s) < n THEN Len(s) ELSE n)

\* a string of n characters
Rep(n) == [i \in 1..n |-> "x"]

\* the default of mon.get("expected_statuses", "200-399")
DefaultSpec == <<"2", "0", "0", "-", "3", "9", "9">>

\* the slice bound of str(e)[:300]
ErrReasonMax == 300

\* the argument of asyncio.sleep(60)
SleepSec == 60

\* str(ValueError) of int(s): invalid literal for int() with base 10: 's'
ValueErrorText(s) ==
    <<"i", "n", "v", "a", "l", "i", "d", " ", "l", "i", "t", "e", "r", "a", "l",
      " ", "f", "o", "r", " ", "i", "n", "t", "(", ")", " ", "w", "i", "t", "h",
      " ", "b", "a", "s", "e", " ", "1", "0", ":", " ", "'">> \o s \o <<"'">>

\* what awaiting client.request ends with: a response with one of the
\* given statuses, or an exception whose str(e) has one of the given lengths
OutcomesOf(statuses, lens) ==
    [kind : {"response"}, status : statuses] \cup
    [kind : {"error"},
     exc : {"ConnectError", "ConnectTimeout", "ReadTimeout", "RemoteProtocolError"},
     desc : {Rep(n) : n \in lens}]

\* the probe outcomes under ProbeSpec: httpx timeouts carry an empty
\* message, connection errors a text of any length
ProbeOutcomes == OutcomesOf({200, 302, 404}, {0, 1, ErrReasonMax + MaxDescOver})

\* the probe outcomes under Spec and StoreSpec
SchedOutcomes == OutcomesOf({200}, {1})

\* monitor records GET /public/monitors answers with.  The worker reads id
\* and url by subscript and the other fields with dict.get, so the other
\* fields may be missing from a record.
MonitorRecords ==
    { [id |-> 1, url |-> "u1", is_enabled |-> TRUE, interval_sec |-> 30],
      [id |-> 2, url |-> "u2", is_enabled |-> FALSE,
       expected_statuses |-> <<"4", "0", "4">>],
      [id |-> 3, url |-> "u3", interval_sec |-> 300,
       expected_statuses |-> <<"4", "0", "4", ",", "sup2">>] }

RECURSIVE SeqsUpTo(_, _)
\* the sequences over S of length at most n
SeqsUpTo(S, n) ==
    IF n = 0 THEN {<<>>}
    ELSE LET shorter == SeqsUpTo(S, n - 1)
         IN  shorter \cup {Append(q, x) : q \in shorter, x \in S}

\* what the fetch of a cycle ends with: client.get raises, raise_for_status
\* raises, r.json() raises or yields no list of objects, or a monitor list
FetchFailures == {"unreachable", "bad_status", "malformed"}

FetchOutcomes ==
    {[kind |-> k, monitors |-> <<>>] : k \in FetchFailures} \cup
    {[kind |-> "ok", monitors |-> ms] : ms \in SeqsUpTo(MonitorRecords, MaxMonitors)}

(***************************************************************************)
(* The store (main.py): the monitors table, create_monitor and the         *)
(* listing the worker fetches.                                             *)
(***************************************************************************)
\* bodies of POST /monitors: MonitorCreate (main.py 69-76) with its defaults
MonitorCreate ==
    [name : {"n"}, url : {"u"}, method : {"GET"}, interval_sec : {60},
     timeout_ms : {5000}, expected_statuses : {DefaultSpec},
     is_enabled : BOOLEAN]

\* Monitor(**payload.model_dump()) after commit and refresh: the row with
\* its primary key
MonitorRow(id, payload) ==
    [id |-> id, name |-> payload.name, url |-> payload.url,
     method |-> payload.method, interval_sec |-> payload.interval_sec,
     timeout_ms |-> payload.timeout_ms,
     expected_statuses |-> payload.expected_statuses,
     is_enabled |-> payload.is_enabled]

\* the bodies of POST /checks: any monitor_id, of a row or of none
CheckCreate ==
    [monitor_id : 0..(MaxRows + 1), status_code : {None, Some(200)},
     ok : BOOLEAN, error_reason : {None}]

\* Check(**payload.model_dump()) after commit and refresh: the row with
\* its primary key
CheckRow(id, payload) ==
    [id |-> id, monitor_id |-> payload.monitor_id,
     status_code |-> payload.status_code, ok |-> payload.ok,
     error_reason |-> payload.error_reason]

\* db.query(Monitor).filter(Monitor.is_enabled == True).all()
list_public_monitors(rows) == SelectSeq(rows, LAMBDA m : m.is_enabled = TRUE)

(***************************************************************************)
(* State.  A check_once task is named <<c, i>>: the i-th task launched in  *)
(* cycle c.  The engine keeps nothing from one cycle to the next: when a   *)
(* cycle ends, the model forgets the tasks that have finished and the      *)
(* lines the cycle printed.  A task that is still running when its cycle   *)
(* ends stays.                                                             *)
(***************************************************************************)
VARIABLES
    rpc,      \* where runner is: "Fetching", "Gathering" or "Sleeping"
    cycle,    \* number of the current iteration of while True
    resp,     \* outcome of the fetch of the current cycle
    tasks,    \* the check_once tasks: task name -> locals and position
    outer,    \* future of the asyncio.gather of the current cycle
    log,      \* lines printed by runner in the current cycle
    sleeps,   \* number of asyncio.sleep(60) calls begun
    delay,    \* seconds the asyncio.sleep in progress was asked for, else 0
    monitors, \* the store's monitors table, in primary key order
    checks,   \* the store's checks table, in primary key order
    reply,    \* HTTP status of the store's last answer to a POST, 0 at first
    call,     \* arguments of a call of in_expected on its own
    ret       \* what that call ended with

\* the state of the store
svars == <<monitors, checks, reply>>

\* a call of in_expected on its own
evars == <<call, ret>>

\* the state of runner and its tasks
wvars == <<rpc, cycle, resp, tasks, outer, log, sleeps, delay>>

vars ==
    <<rpc, cycle, resp, tasks, outer, log, sleeps, delay, monitors, checks,
      reply, call, ret>>

TaskIds == DOMAIN tasks

\* the tasks launched in cycle c
TasksOf(c) == {t \in TaskIds : t[1] = c}

\* a check_once task has finished: returned or raised
Finished(t) == tasks[t].pc \in {"returned", "raised"}

\* the number of POST /checks requests task t has issued
Attempts(t) == Len(tasks[t].sent)

\* the tasks that have issued their POST /checks
Reported == {t \in TaskIds : Attempts(t) > 0}

\* the JSON body of the POST /checks of a task with locals l (worker.py 36-42)
Payload(l) ==
    [monitor_id |-> l.mon.id,
     status_code |-> l.status_code,
     ok |-> l.ok,
     error_reason |-> l.err]

NoResp == [kind |-> "none", monitors |-> <<>>]

NoCall == [mode |-> "none", status |-> 0, spec |-> <<>>, tok |-> <<>>, at |-> 0]

NoRet == [plain |-> Outcome("none"), with |-> Outcome("none")]

\* runner is started, the tables are empty
InitSystem ==
    /\ rpc = "Fetching"
    /\ cycle = 1
    /\ resp = NoResp
    /\ tasks = <<>>
    /\ outer = "none"
    /\ log = <<>>
    /\ sleeps = 0
    /\ delay = 0
    /\ monitors = <<>>
    /\ checks = <<>>
    /\ reply = 0

Init ==
    /\ InitSystem
    /\ call = NoCall
    /\ ret = NoRet

(***************************************************************************)
(* runner (worker.py 44-57).                                               *)
(***************************************************************************)
\* a filter that also leaves out a monitor whose own interval is longer
\* than the sleep of the loop
EnabledAndDue(m) ==
    Get(m, "is_enabled", TRUE) = TRUE /\ Get(m, "interval_sec", SleepSec) <= SleepSec

\* a filter that takes every record
EnabledAll(m) == TRUE

\* the filter of the list comprehension: m.get("is_enabled", True)
Enabled(m) == Get(m, "is_enabled", TRUE) = TRUE

\* check_once up to its first await (worker.py 22-30)
\* a task that reports before it has probed
NewTaskReporting(m) ==
    LET l == [mon |-> m, pc |-> "request",
              status_code |-> None, ok |-> FALSE, err |-> None, sent |-> <<>>]
    IN  [l EXCEPT !.sent = <<Payload(l)>>]

NewTask(m) ==
    [mon |-> m, pc |-> "request",
     status_code |-> None, ok |-> FALSE, err |-> None, sent |-> <<>>]

\* a fan-out that drops a record it has already taken
LaunchDedup(ms, c) ==
    LET en == SelectSeq(ms, Enabled)
        first == {i \in 1..Len(en) : \A j \in 1..(i - 1) : en[j] # en[i]}
    IN  [t \in {c} \X (1..Cardinality(first)) |->
            NewTask(en[CHOOSE i \in first :
                          Cardinality({j \in first : j <= i}) = t[2]])]

\* tasks = [check_once(client, m) for m in monitors if m.get("is_enabled", True)]
Launch(ms, c) ==
    LET en == SelectSeq(ms, Enabled)
    IN  [t \in {c} \X (1..Len(en)) |-> NewTask(en[t[2]])]

\* an except branch that goes back to the top of the loop
ExceptRetry(e) ==
    /\ log' = Append(log, e)
    /\ rpc' = "Fetching"
    /\ UNCHANGED <<sleeps, delay>>

\* except Exception as e: print(...), then the sleep after the try
Except(e) ==
    /\ log' = Append(log, e)
    /\ rpc' = "Sleeping"
    /\ sleeps' = sleeps + 1
    /\ delay' = SleepSec

\* await client.get, raise_for_status, r.json(), the fan-out; a failure of
\* one of the first three is caught by the except branch.  The fetched
\* list is short enough to keep the tasks alive within MaxMonitors.
Fetch(r) ==
    /\ rpc = "Fetching"
    /\ Cardinality(TaskIds) + Len(r.monitors) <= MaxMonitors
    /\ resp' = r
    /\ IF r.kind # "ok"
       THEN /\ Except(r.kind)
            /\ UNCHANGED <<tasks, outer>>
       ELSE LET new == Launch(r.monitors, cycle)
            IN  /\ tasks' = new @@ tasks
                /\ IF DOMAIN new # {}
                   THEN /\ rpc' = "Gathering"
                        /\ outer' = "pending"
                        /\ UNCHANGED <<sleeps, delay>>
                   ELSE /\ rpc' = "Sleeping"
                        /\ sleeps' = sleeps + 1
                        /\ delay' = SleepSec
                        /\ UNCHANGED outer
                /\ UNCHANGED log
    /\ UNCHANGED <<cycle, svars, evars>>

\* await asyncio.gather(*tasks) returns: every task of the cycle returned
GatherReturns ==
    /\ rpc = "Gathering"
    /\ outer = "result"
    /\ rpc' = "Sleeping"
    /\ sleeps' = sleeps + 1
    /\ delay' = SleepSec
    /\ UNCHANGED <<cycle, resp, tasks, outer, log, svars, evars>>

\* a loop without the try: the exception leaves runner
GatherPropagates ==
    /\ rpc = "Gathering"
    /\ outer = "exception"
    /\ rpc' = "Exited"
    /\ UNCHANGED <<cycle, resp, tasks, outer, log, sleeps, delay, svars, evars>>

\* await asyncio.gather(*tasks) raises the first exception of a task;
\* except Exception prints it
GatherRaises ==
    /\ rpc = "Gathering"
    /\ outer = "exception"
    /\ Except("post")
    /\ UNCHANGED <<cycle, resp, tasks, outer, svars, evars>>

\* asyncio.sleep(60) returns and while True starts the next iteration
SleepDone ==
    /\ rpc = "Sleeping"
    /\ cycle < MaxCycles
    /\ rpc' = "Fetching"
    /\ cycle' = cycle + 1
    /\ resp' = NoResp
    /\ outer' = "none"
    /\ tasks' = [t \in {u \in TaskIds : ~Finished(u)} |-> tasks[t]]
    /\ log' = <<>>
    /\ delay' = 0
    /\ UNCHANGED <<sleeps, svars, evars>>

\* asyncio.sleep(60) returns and while True starts the next iteration, for
\* a loop that never ends: cycles are numbered 1..MaxCycles round and
\* round, the count of sleeps starts again with cycle 1, and a cycle number
\* is taken again only when the tasks that carry it have finished
SleepDoneLive ==
    LET next == (cycle % MaxCycles) + 1
    IN  /\ rpc = "Sleeping"
        /\ \A t \in TasksOf(next) : Finished(t)
        /\ rpc' = "Fetching"
        /\ cycle' = next
        /\ resp' = NoResp
        /\ outer' = "none"
        /\ tasks' = [t \in {u \in TaskIds : ~Finished(u)} |-> tasks[t]]
        /\ log' = <<>>
        /\ sleeps' = IF next = 1 THEN 0 ELSE sleeps
        /\ delay' = 0
        /\ UNCHANGED <<svars, evars>>

(***************************************************************************)
(* check_once (worker.py 21-42).                                           *)
(***************************************************************************)
\* a classification that takes every response for healthy
ClassifyAnyResponse(m, o) ==
    IF o.kind = "response"
    THEN [status_code |-> Some(o.status), ok |-> TRUE, err |-> None]
    ELSE [status_code |-> None, ok |-> FALSE,
          err |-> Some(Take(o.desc, ErrReasonMax))]

\* lines 29-34 on the outcome o of client.request: the fields
\* status_code, ok and err at line 35
Classify(m, o) ==
    IF o.kind = "response"
    THEN LET e == in_expected(o.status, Get(m, "expected_statuses", DefaultSpec))
         IN  IF e.r = "ValueError"
             THEN [status_code |-> Some(o.status), ok |-> FALSE,
                   err |-> Some(Take(ValueErrorText(e.arg), ErrReasonMax))]
             ELSE [status_code |-> Some(o.status), ok |-> (e.r = "True"),
                   err |-> None]
    ELSE [status_code |-> None, ok |-> FALSE,
          err |-> Some(Take(o.desc, ErrReasonMax))]

\* client.request ends with outcome o; the task classifies it and issues
\* its POST /checks
ProbeDone(t, o) ==
    /\ t \in TaskIds
    /\ tasks[t].pc = "request"
    /\ LET c == Classify(tasks[t].mon, o)
           l == [tasks[t] EXCEPT !.status_code = c.status_code,
                                 !.ok = c.ok,
                                 !.err = c.err]
       IN  tasks' = [tasks EXCEPT ![t] =
                        [l EXCEPT !.pc = "post",
                                  !.sent = Append(l.sent, Payload(l))]]
    /\ UNCHANGED <<rpc, cycle, resp, outer, log, sleeps, delay, svars, evars>>

\* the _done_callback of asyncio.gather for task t ending in state pc:
\* a gather that is over ignores it, the first exception ends the gather,
\* and the last task to return ends it with a result
GatherCallback(t, pc) ==
    IF t[1] # cycle \/ outer # "pending" THEN outer
    ELSE IF pc = "raised" THEN "exception"
    ELSE IF \A u \in TasksOf(cycle) \ {t} : tasks[u].pc = "returned" THEN "result"
    ELSE outer

\* a check_once that posts again when its POST fails
PostDoneRetry(t, delivered) ==
    /\ t \in TaskIds
    /\ tasks[t].pc = "post"
    /\ IF delivered
       THEN /\ tasks' = [tasks EXCEPT ![t].pc = "returned"]
            /\ outer' = GatherCallback(t, "returned")
       ELSE /\ Attempts(t) < 2
            /\ tasks' = [tasks EXCEPT ![t].sent = Append(@, Payload(tasks[t]))]
            /\ UNCHANGED outer
    /\ UNCHANGED <<rpc, cycle, resp, log, sleeps, delay, svars, evars>>

\* client.post ends: it returns (whatever the HTTP status: the response is
\* not inspected) or it raises, and the exception leaves check_once
PostDone(t, delivered) ==
    /\ t \in TaskIds
    /\ tasks[t].pc = "post"
    /\ LET pc == IF delivered THEN "returned" ELSE "raised"
       IN  /\ tasks' = [tasks EXCEPT ![t].pc = pc]
           /\ outer' = GatherCallback(t, pc)
    /\ UNCHANGED <<rpc, cycle, resp, log, sleeps, delay, svars, evars>>

(***************************************************************************)
(* The store's handlers (main.py 114-128).                                 *)
(***************************************************************************)
\* POST /monitors: the row gets the next primary key
create_monitor(payload) ==
    /\ Len(monitors) < MaxRows
    /\ monitors' = Append(monitors, MonitorRow(Len(monitors) + 1, payload))
    /\ reply' = 200
    /\ UNCHANGED <<checks, wvars, evars>>

\* db.query(Monitor).get(id): the row with this primary key, if any
MonitorGet(id) == {i \in 1..Len(monitors) : monitors[i].id = id}

\* a POST /checks that stores the row without looking up the monitor
create_check_unchecked(payload) ==
    /\ Len(checks) < MaxRows
    /\ checks' = Append(checks, CheckRow(Len(checks) + 1, payload))
    /\ reply' = 200
    /\ UNCHANGED <<monitors, wvars, evars>>

\* POST /checks: 404 when monitor_id names no row of monitors, else the
\* check is stored with the next primary key
create_check(payload) ==
    /\ IF MonitorGet(payload.monitor_id) = {}
       THEN /\ reply' = 404
            /\ UNCHANGED checks
       ELSE /\ Len(checks) < MaxRows
            /\ checks' = Append(checks, CheckRow(Len(checks) + 1, payload))
            /\ reply' = 200
    /\ UNCHANGED <<monitors, wvars, evars>>

\* the fetch of a cycle answered by this store: GET /public/monitors
FetchFromStore ==
    Fetch([kind |-> "ok", monitors |-> list_public_monitors(monitors)])

(***************************************************************************)
(* in_expected called on its own (worker.py 7-19).                         *)
(***************************************************************************)
\* the characters of the specification strings: digits, the range dash,
\* the list comma and whitespace
SpecChars == {"1", "2", "-", ",", " "}

\* the statuses in_expected is asked about: below, at, between and above
\* the numbers the digits can spell
EvalStatuses == {0, 1, 2, 3, 12}

\* a call in_expected(status, spec)
EvalCalls ==
    [mode : {"plain"}, status : EvalStatuses,
     spec : SeqsUpTo(SpecChars, MaxSpecLen), tok : {<<>>}, at : {0}]

\* in_expected(call.status, call.spec) runs to its end
Evaluate ==
    /\ call.mode # "none"
    /\ ret.plain.r = "none"
    /\ ret' = [ret EXCEPT !.plain = in_expected(call.status, call.spec)]
    /\ UNCHANGED <<wvars, svars, call>>

InitEval ==
    /\ InitSystem
    /\ call \in EvalCalls
    /\ ret = NoRet

\* tokens that are neither a number nor a range of two numbers: not all
\* digits, a range with a bound that is empty or not a number, more than
\* one dash.  "sup2" is a digit for str.isdigit() and no decimal digit.
MalformedTokens ==
    { <<"a">>, <<"1", "a">>, <<"1", "-">>, <<"-", "2">>, <<"a", "-", "2">>,
      <<"1", "-", "2", "-", "3">>, <<"sup2">>, <<"1", "-", "sup2">> }

\* where a token can be put into the list x: in front (0), behind the comma
\* at position i, or at the end (Len(x) + 1)
InsertPoints(x) == {0, Len(x) + 1} \cup {i \in 1..Len(x) : x[i] = ","}

\* the list x with the token t put in at the point at
Inserted(x, t, at) ==
    IF at = 0 THEN t \o <<",">> \o x
    ELSE IF at = Len(x) + 1 THEN x \o <<",">> \o t
    ELSE SubSeq(x, 1, at) \o t \o <<",">> \o SubSeq(x, at + 1, Len(x))

\* a call in_expected(status, spec) followed by the call on spec with a
\* malformed token put in
InsertCalls ==
    {c \in [mode : {"insert"}, status : {1, 2, 12},
            spec : SeqsUpTo(SpecChars, MaxBaseLen), tok : MalformedTokens,
            at : 0..(MaxBaseLen + 1)] : c.at \in InsertPoints(c.spec)}

\* in_expected(call.status, <call.spec with call.tok put in>) runs to its
\* end
EvaluateWith ==
    /\ call.mode = "insert"
    /\ ret.plain.r # "none"
    /\ ret.with.r = "none"
    /\ ret' = [ret EXCEPT !.with =
                   in_expected(call.status,
                               Inserted(call.spec, call.tok, call.at))]
    /\ UNCHANGED <<wvars, svars, call>>

InitInsert ==
    /\ InitSystem
    /\ call \in InsertCalls
    /\ ret = NoRet

(***************************************************************************)
(* Specifications.                                                         *)
(* Spec: runner and its tasks over MaxCycles cycles.                       *)
(* ProbeSpec: one cycle of runner, with every probe outcome.               *)
(* StoreSpec: one cycle of runner next to the store, whose listing is one  *)
(* of the answers to the fetch.                                            *)
(***************************************************************************)
Next ==
    \/ \E r \in FetchOutcomes : Fetch(r)
    \/ GatherReturns
    \/ GatherRaises
    \/ SleepDone
    \/ \E t \in TaskIds, o \in SchedOutcomes : ProbeDone(t, o)
    \/ \E t \in TaskIds, d \in BOOLEAN : PostDone(t, d)

Spec == Init /\ [][Next]_vars

NextProbe ==
    \/ \E r \in FetchOutcomes : Fetch(r)
    \/ GatherReturns
    \/ GatherRaises
    \/ \E t \in TaskIds, o \in ProbeOutcomes : ProbeDone(t, o)
    \/ \E t \in TaskIds, d \in BOOLEAN : PostDone(t, d)

ProbeSpec == Init /\ [][NextProbe]_vars

NextStore ==
    \/ \E r \in FetchOutcomes : Fetch(r)
    \/ FetchFromStore
    \/ GatherReturns
    \/ GatherRaises
    \/ \E t \in TaskIds, o \in SchedOutcomes : ProbeDone(t, o)
    \/ \E t \in TaskIds, d \in BOOLEAN : PostDone(t, d)
    \/ \E payload \in MonitorCreate : create_monitor(payload)

StoreSpec == Init /\ [][NextStore]_vars

\* some client.request ends, with a failure or with a response (the same
\* steps as ProbeDone over SchedOutcomes; with the failures first, whether
\* a probe can end is settled without classifying a response)
ProbeReturns ==
    \E t \in TaskIds :
        \/ \E o \in {x \in SchedOutcomes : x.kind = "error"} : ProbeDone(t, o)
        \/ \E o \in SchedOutcomes : ProbeDone(t, o)

\* the fetch outcomes under LiveSpec: every failure, and the lists over an
\* enabled and a disabled record
LiveFetchOutcomes ==
    {r \in FetchOutcomes :
        \A i \in 1..Len(r.monitors) : "is_enabled" \in DOMAIN r.monitors[i]}

\* ApiSpec: the store's POST handlers, called in any order
NextApi ==
    \/ \E payload \in MonitorCreate : create_monitor(payload)
    \/ \E payload \in CheckCreate : create_check(payload)

ApiSpec == Init /\ [][NextApi]_vars

\* LiveSpec: runner for ever.  Every await returns in the end: the fetch,
\* each probe, each POST and each sleep end (with a result or an
\* exception), and the event loop runs runner when its gather is over.
NextLive ==
    \/ \E r \in LiveFetchOutcomes : Fetch(r)
    \/ GatherReturns
    \/ GatherRaises
    \/ SleepDoneLive
    \/ \E t \in TaskIds, o \in SchedOutcomes : ProbeDone(t, o)
    \/ \E t \in TaskIds, d \in BOOLEAN : PostDone(t, d)

LiveSpec ==
    /\ Init
    /\ [][NextLive]_vars
    /\ WF_vars(\E r \in LiveFetchOutcomes : Fetch(r))
    /\ WF_vars(GatherReturns)
    /\ WF_vars(GatherRaises)
    /\ WF_vars(SleepDoneLive)
    /\ WF_vars(ProbeReturns)
    /\ WF_vars(\E t \in TaskIds, d \in BOOLEAN : PostDone(t, d))

\* EvalSpec: one call of in_expected, for every status and every
\* specification string of the bounded sets
NextEval == Evaluate

EvalSpec == InitEval /\ [][NextEval]_vars

\* InsertSpec: a call of in_expected, then the call on the same list with
\* a malformed token put in at any point
NextInsert ==
    \/ Evaluate
    \/ EvaluateWith

InsertSpec == InitInsert /\ [][NextInsert]_vars

(***************************************************************************)
(* Vocabulary of the claims.                                               *)
(***************************************************************************)
\* the tasks of cycle c whose POST /checks raised
FailedReports(c) == {t \in TasksOf(c) : tasks[t].pc = "raised"}

\* the tasks of cycle c that have issued their POST /checks
ReportedOf(c) == {t \in TasksOf(c) : Attempts(t) > 0}

\* the number of tasks of cycle c that probe record m
ProbesOf(c, m) == Cardinality({t \in TasksOf(c) : tasks[t].mon = m})

\* the number of places record m has in the list ms
Occurrences(ms, m) == Cardinality({i \in 1..Len(ms) : ms[i] = m})

\* record m carries is_enabled = true
IsEnabledTrue(m) == "is_enabled" \in DOMAIN m /\ m.is_enabled = TRUE

\* record m carries is_enabled = true, or carries no is_enabled at all
EnabledOrMissing(m) == "is_enabled" \notin DOMAIN m \/ m.is_enabled = TRUE

\* the expected-status specification of record m, the default when it has none
SpecOf(m) == IF "expected_statuses" \in DOMAIN m THEN m.expected_statuses
             ELSE DefaultSpec

(***************************************************************************)
(* C1: in every cycle, runner does not enter Sleeping until every          *)
(* check_once task launched in that cycle has finished.                    *)
(* Fails: a task whose POST raises ends asyncio.gather at once, while the  *)
(* other tasks of the cycle are still running.                             *)
(***************************************************************************)
C1_SleepsOnlyAfterJoin ==
    rpc = "Sleeping" => \A t \in TasksOf(cycle) : Finished(t)

(***************************************************************************)
(* C2: check_once never propagates an exception to the scheduling loop.    *)
(* Fails: client.post is outside the try block, so a failed delivery       *)
(* leaves check_once as an exception.                                      *)
(***************************************************************************)
C2_CheckOnceNeverRaises ==
    \A t \in TaskIds : tasks[t].pc # "raised"

(***************************************************************************)
(* C3: when the loop is Sleeping and the N tasks of the cycle have all     *)
(* finished, k of them with a failed delivery, the log of the cycle holds  *)
(* k lines and the cycle has made N report attempts.                       *)
(* Fails: only the first exception reaches the except branch; the later    *)
(* ones are dropped by the finished gather.                                *)
(***************************************************************************)
C3_EveryFailedReportLogged ==
    (/\ rpc = "Sleeping"
     /\ resp.kind = "ok"
     /\ \A t \in TasksOf(cycle) : Finished(t)) =>
        /\ Len(log) = Cardinality(FailedReports(cycle))
        /\ Cardinality(ReportedOf(cycle)) = Cardinality(TasksOf(cycle))

(***************************************************************************)
(* C4: a cycle whose fetch succeeds launches exactly one probe per enabled *)
(* record of the fetched list, duplicates counted: N enabled records give  *)
(* N tasks, and a record that occurs k times is probed k times.  (Enabled  *)
(* as the filter of line 51 has it, see C7.)                               *)
(***************************************************************************)
C4_OneProbePerEnabledRecord ==
    resp.kind = "ok" =>
        /\ Cardinality(TasksOf(cycle)) =
              Len(SelectSeq(resp.monitors, EnabledOrMissing))
        /\ \A i \in 1..Len(resp.monitors) :
              EnabledOrMissing(resp.monitors[i]) =>
                 ProbesOf(cycle, resp.monitors[i]) =
                    Occurrences(resp.monitors, resp.monitors[i])

\* the longest list, one record in every place, all its probes in flight
\* at the same time
C4_Witness ==
    /\ resp.kind = "ok"
    /\ Len(resp.monitors) = MaxMonitors
    /\ \A i \in 1..Len(resp.monitors) : resp.monitors[i] = resp.monitors[1]
    /\ Cardinality({t \in TasksOf(cycle) : tasks[t].pc = "request"}) = MaxMonitors

(***************************************************************************)
(* C5: every executed probe results in exactly one report attempt, which   *)
(* carries the id of the probed monitor: none before the probe is over,    *)
(* one from then on, never a second one, whether the probe got a response  *)
(* or failed and whether the delivery succeeded or failed; a task launched *)
(* in a cycle starts with nothing to report.                               *)
(***************************************************************************)
C5_ExactlyOneReportPerProbe ==
    \A t \in TaskIds :
        /\ Attempts(t) = (IF tasks[t].pc = "request" THEN 0 ELSE 1)
        /\ \A i \in 1..Attempts(t) :
              tasks[t].sent[i].monitor_id = tasks[t].mon.id

\* a probe that failed and whose delivery failed, in a later cycle than
\* its own: still one attempt
C5_Witness ==
    \E t \in TaskIds :
        /\ t[1] < cycle
        /\ tasks[t].pc = "raised"
        /\ tasks[t].status_code = None
        /\ Attempts(t) = 1

(***************************************************************************)
(* C6: a cycle whose fetch fails launches no probe, prints the error and   *)
(* goes to Sleeping; every fetch but the first comes after exactly one     *)
(* sleep per earlier cycle, so a failed fetch is never retried at once.    *)
(***************************************************************************)
C6_FetchFailureSkipsCycle ==
    /\ resp.kind \in FetchFailures =>
          /\ TasksOf(cycle) = {}
          /\ rpc = "Sleeping"
          /\ log = <<resp.kind>>
          /\ sleeps = cycle
    /\ rpc = "Fetching" => sleeps = cycle - 1

\* the fetch of the second cycle failed, with a task of the first cycle
\* still running
C6_Witness ==
    /\ cycle > 1
    /\ resp.kind \in FetchFailures
    /\ \E t \in TaskIds : ~Finished(t)

(***************************************************************************)
(* C7 as stated: a record of the fetched list is probed if and only if it  *)
(* carries is_enabled = true, every probed record is of the fetched list,  *)
(* and the store's listing holds no disabled monitor.                      *)
(* Fails: a record without is_enabled is probed.                           *)
(***************************************************************************)
C7_ProbedIffIsEnabledTrue ==
    /\ resp.kind = "ok" =>
          \A i \in 1..Len(resp.monitors) :
             (ProbesOf(cycle, resp.monitors[i]) > 0) <=>
                IsEnabledTrue(resp.monitors[i])
    /\ \A i \in 1..Len(list_public_monitors(monitors)) :
          list_public_monitors(monitors)[i].is_enabled = TRUE

(***************************************************************************)
(* C7 amended: a record of the fetched list is probed if and only if it    *)
(* carries is_enabled = true or no is_enabled at all; a record with        *)
(* is_enabled = false is never probed; every task of the cycle probes a    *)
(* record of the fetched list; the store's listing holds no disabled       *)
(* monitor.                                                                *)
(***************************************************************************)
C7_ProbedIffEnabledOrMissing ==
    /\ resp.kind = "ok" =>
          /\ \A i \in 1..Len(resp.monitors) :
                (ProbesOf(cycle, resp.monitors[i]) > 0) <=>
                   EnabledOrMissing(resp.monitors[i])
          /\ \A t \in TasksOf(cycle) :
                \E i \in 1..Len(resp.monitors) : resp.monitors[i] = tasks[t].mon
    /\ \A i \in 1..Len(list_public_monitors(monitors)) :
          list_public_monitors(monitors)[i].is_enabled = TRUE

\* a record without is_enabled was fetched and is probed, while the table
\* holds a disabled row and an enabled one
C7_Witness ==
    /\ resp.kind = "ok"
    /\ \E i \in 1..Len(resp.monitors) :
          /\ "is_enabled" \notin DOMAIN resp.monitors[i]
          /\ ProbesOf(cycle, resp.monitors[i]) > 0
    /\ \E i \in 1..Len(monitors) : monitors[i].is_enabled = FALSE
    /\ \E i \in 1..Len(monitors) : monitors[i].is_enabled = TRUE

(***************************************************************************)
(* C8: in every reported check result, ok is true if and only if a         *)
(* response was received and in_expected(status_code, spec) returned True, *)
(* spec being the monitor's expected_statuses or "200-399" when the        *)
(* monitor has none.                                                       *)
(***************************************************************************)
C8_OkIffResponseMatches ==
    \A t \in Reported :
        LET c == tasks[t].sent[1]
        IN  c.ok <=>
               /\ c.status_code # None
               /\ in_expected(c.status_code[1], SpecOf(tasks[t].mon)).r = "True"

\* a monitor without expected_statuses answered 302: ok by the default
C8_Witness ==
    \E t \in Reported :
        /\ "expected_statuses" \notin DOMAIN tasks[t].mon
        /\ tasks[t].sent[1].status_code = Some(302)
        /\ tasks[t].sent[1].ok

(***************************************************************************)
(* C9: in every reported check result, error_reason and status_code are    *)
(* never both present, and a received response that does not match has     *)
(* ok = false, status_code present and error_reason absent.                *)
(* Fails: int() raises on a token that passed isdigit(), after status_code *)
(* was set.                                                                *)
(***************************************************************************)
C9_ErrorReasonOnlyWithoutStatus ==
    \A t \in Reported :
        LET c == tasks[t].sent[1]
        IN  /\ ~(c.error_reason # None /\ c.status_code # None)
            /\ (c.status_code # None /\ ~c.ok) => c.error_reason = None

(***************************************************************************)
(* C10: the check result of a probe that failed at the transport level     *)
(* (no status_code) has ok = false and an error_reason that is present,    *)
(* non-empty and at most 300 characters long.                              *)
(* Fails: str(e) of an exception without message is empty.                 *)
(***************************************************************************)
C10_TransportFailureHasReason ==
    \A t \in Reported :
        LET c == tasks[t].sent[1]
        IN  c.status_code = None =>
               /\ ~c.ok
               /\ c.error_reason # None
               /\ Len(c.error_reason[1]) > 0
               /\ Len(c.error_reason[1]) <= ErrReasonMax

(***************************************************************************)
(* The grammar of a specification string, as positions in the string: a    *)
(* token is a maximal stretch without a comma; trimmed of whitespace it is *)
(* a number N, or two numbers A and B around one dash.                     *)
(***************************************************************************)
DecDigit ==
    [c \in {"0", "1", "2", "3", "4", "5", "6", "7", "8", "9"} |->
        CASE c = "0" -> 0 [] c = "1" -> 1 [] c = "2" -> 2 [] c = "3" -> 3
          [] c = "4" -> 4 [] c = "5" -> 5 [] c = "6" -> 6 [] c = "7" -> 7
          [] c = "8" -> 8 [] c = "9" -> 9]

IsNumber(x) == Len(x) > 0 /\ \A i \in 1..Len(x) : x[i] \in DOMAIN DecDigit

RECURSIVE NumberOf(_)
\* the number a string of decimal digits spells, leading digit first
NumberOf(x) ==
    IF Len(x) = 0 THEN 0
    ELSE DecDigit[Head(x)] * 10 ^ (Len(x) - 1) + NumberOf(Tail(x))

\* the stretches <<i, j>> of x between commas and the ends of x
TokensOf(x) ==
    {ij \in (1..(Len(x) + 1)) \X (0..Len(x)) :
        /\ ij[1] <= ij[2] + 1
        /\ ij[1] = 1 \/ x[ij[1] - 1] = ","
        /\ ij[2] = Len(x) \/ x[ij[2] + 1] = ","
        /\ \A k \in ij[1]..ij[2] : x[k] # ","}

\* the stretch <<i, j>> without the whitespace around it
Trimmed(x, ij) ==
    LET inked == {k \in ij[1]..ij[2] : x[k] \notin {" ", "\t"}}
    IN  IF inked = {} THEN <<>>
        ELSE SubSeq(x, CHOOSE k \in inked : \A l \in inked : k <= l,
                       CHOOSE k \in inked : \A l \in inked : l <= k)

\* the token t is the exact number s
ExactMatch(s, t) == IsNumber(t) /\ NumberOf(t) = s

\* the token t is a range A-B with A <= s <= B
RangeMatch(s, t) ==
    \E d \in 1..Len(t) :
        LET A == SubSeq(t, 1, d - 1)
            B == SubSeq(t, d + 1, Len(t))
        IN  /\ t[d] = "-"
            /\ IsNumber(A)
            /\ IsNumber(B)
            /\ NumberOf(A) <= s
            /\ s <= NumberOf(B)

\* some valid token of x matches s
SomeTokenMatches(s, x) ==
    \E ij \in TokensOf(x) :
        ExactMatch(s, Trimmed(x, ij)) \/ RangeMatch(s, Trimmed(x, ij))

(***************************************************************************)
(* C11: for every status s and every specification string of numbers,      *)
(* ranges A-B, commas and whitespace, in_expected(s, spec) returns, and    *)
(* returns true exactly when a valid token of the string matches s: an     *)
(* exact token N when s = N, a range token A-B when A <= s <= B.  A        *)
(* reversed range matches nothing; the empty string and a string without   *)
(* a matching valid token give false.                                      *)
(***************************************************************************)
C11_TrueIffSomeValidTokenMatches ==
    (call.mode = "plain" /\ ret.plain.r # "none") =>
        /\ ret.plain.r \in {"True", "False"}
        /\ ret.plain.r = "True" <=> SomeTokenMatches(call.status, call.spec)

\* a range token among whitespace has matched
C11_Witness ==
    /\ call.mode = "plain"
    /\ ret.plain.r = "True"
    /\ \E i \in 1..Len(call.spec) : call.spec[i] = "-"
    /\ \E i \in 1..Len(call.spec) : call.spec[i] = " "

(***************************************************************************)
(* C12: a malformed token is skipped silently: for every status s, every   *)
(* specification string and every malformed token t put anywhere into the  *)
(* list, in_expected does not raise and gives what it gives without t.     *)
(* Fails: a token of characters that str.isdigit() accepts and int()       *)
(* rejects makes in_expected raise ValueError.                             *)
(***************************************************************************)
C12_MalformedTokenIsSkipped ==
    (call.mode = "insert" /\ ret.with.r # "none") =>
        /\ ret.with.r # "ValueError"
        /\ ret.with.r = ret.plain.r

C14_FetchingInfinitelyOften == []<>(rpc = "Fetching")

\* runner is at the fetch of cycle 1 once more, after a cycle whose gather
\* raised and left a task running
C14_Witness ==
    /\ rpc = "Fetching"
    /\ cycle = 1
    /\ \E t \in TaskIds : t[1] = MaxCycles /\ ~Finished(t)

(***************************************************************************)
(* Two fetched lists that differ only in interval_sec.                     *)
(***************************************************************************)
\* an interval_sec value, or 0 for a record without the field
IntervalChoices == {0, 30, 60, 300}

\* the record m with the interval_sec v, or without one
WithInterval(m, v) ==
    IF v = 0 THEN [k \in DOMAIN m \ {"interval_sec"} |-> m[k]]
    ELSE [k \in DOMAIN m \cup {"interval_sec"} |->
             IF k = "interval_sec" THEN v ELSE m[k]]

\* the lists that differ from ms in interval_sec values only
ListVariants(ms) ==
    {[i \in 1..Len(ms) |-> WithInterval(ms[i], vs[i])] :
        vs \in [1..Len(ms) -> IntervalChoices]}

\* what a record is apart from its interval_sec
ApartFromInterval(m) == [k \in DOMAIN m \ {"interval_sec"} |-> m[k]]

(***************************************************************************)
(* C15: the schedule does not depend on interval_sec: a fetched list and   *)
(* any list that differs from it only in interval_sec values launch the    *)
(* same probes in the cycle, one per enabled record, and every sleep of    *)
(* the loop is the one fixed interval.                                     *)
(***************************************************************************)
C15_ScheduleIgnoresIntervalSec ==
    [][/\ (rpc = "Fetching" /\ resp'.kind = "ok") =>
            \A ns \in ListVariants(resp'.monitors) :
                LET other == Launch(ns, cycle)
                    launched == {t \in DOMAIN tasks' : t \notin TaskIds}
                IN  /\ DOMAIN other = launched
                    /\ \A t \in launched :
                          ApartFromInterval(other[t].mon)
                              = ApartFromInterval(tasks'[t].mon)
       /\ (rpc # "Sleeping" /\ rpc' = "Sleeping") => delay' = SleepSec
       /\ delay' \in {0, SleepSec}]_vars

\* two enabled monitors with different interval_sec have been probed in
\* the same cycle, and the loop sleeps the fixed interval
C15_Witness ==
    /\ rpc = "Sleeping"
    /\ delay = SleepSec
    /\ \E t, u \in TasksOf(cycle) :
          /\ Get(tasks[t].mon, "interval_sec", SleepSec)
                # Get(tasks[u].mon, "interval_sec", SleepSec)
          /\ Attempts(t) = 1
          /\ Attempts(u) = 1

(***************************************************************************)
(* C16: after any sequence of create_monitor and create_check calls every  *)
(* stored check names a stored monitor; a create_check whose monitor_id    *)
(* names no monitor answers 404 and leaves the checks as they were, and    *)
(* the checks change only by one new row at the end, answered with 200.    *)
(***************************************************************************)
C16_EveryCheckNamesAMonitor ==
    [][/\ \A i \in 1..Len(checks') :
             \E j \in 1..Len(monitors') : monitors'[j].id = checks'[i].monitor_id
       /\ reply' = 404 => checks' = checks
       /\ checks' # checks =>
             /\ Len(checks') = Len(checks) + 1
             /\ SubSeq(checks', 1, Len(checks)) = checks
             /\ MonitorGet(checks'[Len(checks')].monitor_id) # {}
             /\ reply' = 200]_vars

\* a check has been stored and a later create_check was answered 404
C16_Witness ==
    /\ reply = 404
    /\ Len(checks) > 0
    /\ Len(monitors) > 0

(***************************************************************************)
(* C17: cycles never overlap: when the loop is at the fetch of a cycle, no *)
(* check_once task of an earlier cycle is still running, so the tasks in   *)
(* flight at any time all belong to one cycle.                             *)
(* Fails: a failed POST ends asyncio.gather while the other tasks of the   *)
(* cycle are still running (C1, C2); they run on through the sleep and     *)
(* into the next cycle.                                                    *)
(***************************************************************************)
C17_CyclesNeverOverlap ==
    /\ rpc = "Fetching" => \A t \in TaskIds : t[1] < cycle => Finished(t)
    /\ \A t, u \in TaskIds : (~Finished(t) /\ ~Finished(u)) => t[1] = u[1]

====
